---- MODULE Spec2Model ----
(***************************************************************************)
(* Model of src/util/socket.c: socket_SIOCGIFNAME() and socket_bind_if().  *)
(*                                                                         *)
(* One caller thread operates on one socket that lives in one network      *)
(* namespace.  The namespace's interface table changes out-of-band         *)
(* (rename / removal / creation of interfaces).  The two kernel requests   *)
(* the code issues, ioctl(SIOCGIFNAME) and setsockopt(SO_BINDTODEVICE),    *)
(* are atomic; the window between them in socket_bind_if() is not.         *)
(*                                                                         *)
(* Strings are sequences of byte values, 0 is the terminator.              *)
(***************************************************************************)
EXTENDS Integers, Sequences, FiniteSets, TLC

\* ---------------------------------------------------------------- bounds
MaxIfindex == 2          \* interface indices 1..MaxIfindex may exist
NumNames   == 2          \* number of distinct interface names in play

\* ------------------------------------------------------ program constants
IFNAMSIZ    == 16        \* <net/if.h>, size of the name buffers
ENODEV      == 19        \* errno: no such device
EPERM       == 1         \* errno: operation not permitted
ENOPROTOOPT == 92        \* errno: protocol option not available

NoIf == <<>>             \* table entry of an index that has no interface

Indices == 1..MaxIfindex

\* Interface names: "a", "aa", ... and one name of the maximum length
\* IFNAMSIZ-1.
NameLen(k) == IF k = NumNames THEN IFNAMSIZ - 1 ELSE k
Name(k)    == [j \in 1..NameLen(k) |-> 97]
Names      == {Name(k) : k \in 1..NumNames}

\* Buffers of IFNAMSIZ bytes.
Zeros   == [j \in 1..IFNAMSIZ |-> 0]
Garbage == [j \in 1..IFNAMSIZ |-> 120]
Pad(name) == [j \in 1..IFNAMSIZ |-> IF j <= Len(name) THEN name[j] ELSE 0]

\* Contents a caller's buffer can have before socket_SIOCGIFNAME() is called.
CallerBuffers == {Zeros, Garbage}

\* Interface indices callers pass: the unbind sentinel 0, every index of the
\* namespace (existing or not), and a negative one.
CallerIndices == (-1)..MaxIfindex

VARIABLES
    ifaces,      \* namespace: index -> name of the interface, or NoIf
    priv,        \* the caller holds CAP_NET_RAW in the namespace
    bound,       \* the socket's device binding (an ifindex, 0 = unbound)
    pc,          \* position of the caller
    fn,          \* function being / last executed
    ifindex,     \* argument @ifindex of the current call
    ifname,      \* the name buffer (socket_bind_if: local; resolver: caller's)
    r,           \* return value of the current call
    buf0,        \* the name buffer as it was when the call was entered
    bound0,      \* the socket's binding when the call was entered
    log,         \* kernel requests issued by the current call, in order
    raced,       \* the namespace changed between resolution and bind
    envChanged,  \* the namespace changed since the current call was entered
    prev         \* summary of the call before the current one

vars == <<ifaces, priv, bound, pc, fn, ifindex, ifname, r, buf0, bound0,
          log, raced, envChanged, prev>>

\* ------------------------------------------------------------ C strings

Terminated(buf) == \E j \in 1..Len(buf) : buf[j] = 0

FirstNul(buf) == CHOOSE j \in 1..Len(buf) :
                    buf[j] = 0 /\ \A k \in 1..(j - 1) : buf[k] # 0

\* strlen(3): the number of bytes before the first 0.  On a buffer without
\* terminator the read runs past the buffer and the result is any larger
\* value.
strlen(buf) == IF Terminated(buf) THEN {FirstNul(buf) - 1}
               ELSE Len(buf)..(2 * Len(buf))

\* The C string stored in the first n bytes of buf.
CStr(buf, n) ==
    LET m == IF n < Len(buf) THEN n ELSE Len(buf)
        head == SubSeq(buf, 1, m)
    IN  IF Terminated(head) THEN SubSeq(head, 1, FirstNul(head) - 1) ELSE head

\* memcpy(3) of the first n bytes of src over dst.
memcpy(dst, src, n) == [j \in 1..Len(dst) |-> IF j <= n THEN src[j] ELSE dst[j]]

\* ------------------------------------------------------------ the kernel

Exists(ifs, idx) == idx \in DOMAIN ifs /\ ifs[idx] # NoIf

\* ioctl(socket, SIOCGIFNAME, &req): on success the kernel stores the
\* zero-terminated name in req.ifr_name, on failure req is left alone.
ioctl_SIOCGIFNAME(ifs, req) ==
    IF Exists(ifs, req.ifr_ifindex)
    THEN [r |-> 0, errno |-> 0,
          req |-> [req EXCEPT !.ifr_name =
                       memcpy(req.ifr_name, Pad(ifs[req.ifr_ifindex]),
                              Len(ifs[req.ifr_ifindex]) + 1)]]
    ELSE [r |-> -1, errno |-> ENODEV, req |-> req]

\* The index of the interface called name, 0 if there is none.
IndexOf(ifs, name) ==
    IF \E i \in DOMAIN ifs : ifs[i] = name
    THEN CHOOSE i \in DOMAIN ifs : ifs[i] = name
    ELSE 0

\* setsockopt(socket, SOL_SOCKET, SO_BINDTODEVICE, optval, optlen): the
\* kernel takes at most IFNAMSIZ-1 bytes of optval as a C string; the empty
\* string removes the binding, any other string must name an interface.
setsockopt_SO_BINDTODEVICE(ifs, cap, old, optval, optlen) ==
    LET n       == IF optlen > IFNAMSIZ - 1 THEN IFNAMSIZ - 1 ELSE optlen
        devname == CStr(optval, n)
    IN  IF ~cap THEN [r |-> -1, errno |-> EPERM, bound |-> old]
        ELSE IF devname = <<>> THEN [r |-> 0, errno |-> 0, bound |-> 0]
        ELSE IF IndexOf(ifs, devname) = 0
             THEN [r |-> -1, errno |-> ENODEV, bound |-> old]
        ELSE [r |-> 0, errno |-> 0, bound |-> IndexOf(ifs, devname)]

\* A kernel request as recorded in log.  data is the buffer of the request
\* when it returned: req.ifr_name of an ioctl, optval of a setsockopt.
Request(req, idx, data, optlen, errno) ==
    [req |-> req, ifindex |-> idx, data |-> data, optlen |-> optlen,
     errno |-> errno]

\* -------------------------------------------------- socket_SIOCGIFNAME()

\* `return -errno;`
socket_SIOCGIFNAME_error(k) == -k.errno

\* Mutant: copy only the name's bytes, without its terminator.
socket_SIOCGIFNAME_copy_strlen(buf, req) ==
    memcpy(buf, req.ifr_name, FirstNul(req.ifr_name) - 1)

\* `memcpy(ifnamep, req.ifr_name, IFNAMSIZ);`
socket_SIOCGIFNAME_copy(buf, req) == memcpy(buf, req.ifr_name, IFNAMSIZ)

\* Mutant: copy req.ifr_name out before looking at the ioctl's result.
socket_SIOCGIFNAME_copy_first(ifs, idx, buf) ==
    LET req == [ifr_name |-> Zeros, ifr_ifindex |-> idx]
        k   == ioctl_SIOCGIFNAME(ifs, req)
    IN  [r      |-> IF k.r < 0 THEN socket_SIOCGIFNAME_error(k) ELSE 0,
         ifname |-> socket_SIOCGIFNAME_copy(buf, k.req),
         req    |-> Request("SIOCGIFNAME", idx, k.req.ifr_name, 0, k.errno)]

\* The whole function: its return value, the caller's buffer afterwards and
\* the kernel request it issued.
socket_SIOCGIFNAME(ifs, idx, buf) ==
    LET req == [ifr_name |-> Zeros, ifr_ifindex |-> idx]
        k   == ioctl_SIOCGIFNAME(ifs, req)
    IN  IF k.r < 0
        THEN [r      |-> socket_SIOCGIFNAME_error(k),
              ifname |-> buf,
              req    |-> Request("SIOCGIFNAME", idx, k.req.ifr_name, 0, k.errno)]
        ELSE [r      |-> 0,
              ifname |-> socket_SIOCGIFNAME_copy(buf, k.req),
              req    |-> Request("SIOCGIFNAME", idx, k.req.ifr_name, 0, 0)]

\* ------------------------------------------------------ socket_bind_if()

\* Mutant: `char ifname[IFNAMSIZ];` without initialiser, the buffer holds
\* whatever the stack held.
ifname_uninitialised == {Zeros, Garbage} \cup {Pad(n) : n \in Names}

\* `char ifname[IFNAMSIZ] = {};`: the contents the local buffer can start with.
ifname_init == {Zeros}

\* Mutant: assert() compiled out.
assert_none(idx) == TRUE

\* `assert(ifindex >= 0);`
assert_ifindex(idx) == idx >= 0

\* `#if 0 /* SO_BINDTOIF is not yet upstream, so disable for now */`
SO_BINDTOIF_compiled == FALSE

\* Mutant: index 0 is resolved like any other index.
resolve_always(idx) == idx >= 0

\* Mutant: off by one, index 1 is not resolved.
resolve_above_one(idx) == idx > 1

\* `if (ifindex > 0)`: the index has to be resolved to a name.
needs_resolve(idx) == idx > 0

\* Mutant: `if (r > 0) return r;`, negative error codes pass.
resolve_failed_positive(res) == res > 0

\* `if (r) return r;`
resolve_failed(res) == res # 0

\* Mutant: `sizeof(ifname)` as the option length.
optlen_sizeof(buf) == {Len(buf)}

\* `strlen(ifname)`: the option length passed to setsockopt.
optlen_of(buf) == strlen(buf)

\* Mutant: a failing setsockopt is reported as success.
bind_result_swallowed(k) == 0

\* `if (r < 0) return -errno; return 0;`
bind_result(k) == IF k.r < 0 THEN -k.errno ELSE 0

\* Summary of the call that ends when the next one is entered.
Summary ==
    [fn |-> fn, ifindex |-> ifindex, r |-> r, bound |-> bound,
     raced |-> raced, quiet |-> ~envChanged]

NoCall == [fn |-> "none", ifindex |-> 0, r |-> 0, bound |-> 0,
           raced |-> FALSE, quiet |-> TRUE]

CanCall == pc \in {"idle", "done"}

\* ---------------------------------------------------------------- Init
Init ==
    /\ ifaces \in [Indices -> Names \cup {NoIf}]
    /\ \A i, j \in Indices : i # j /\ ifaces[i] # NoIf => ifaces[i] # ifaces[j]
    /\ priv \in BOOLEAN
    /\ bound = 0
    /\ pc = "idle"
    /\ fn = "none"
    /\ ifindex = 0
    /\ ifname = Zeros
    /\ r = 0
    /\ buf0 = Zeros
    /\ bound0 = 0
    /\ log = <<>>
    /\ raced = FALSE
    /\ envChanged = FALSE
    /\ prev = NoCall

\* ------------------------------------------------------------- actions

\* A caller resolves an index with socket_SIOCGIFNAME(): one ioctl, then the
\* copy into the caller's buffer.
call_socket_SIOCGIFNAME ==
    /\ CanCall
    /\ \E idx \in CallerIndices, buf \in CallerBuffers :
          LET res == socket_SIOCGIFNAME(ifaces, idx, buf)
          IN  /\ ifindex' = idx
              /\ buf0' = buf
              /\ ifname' = res.ifname
              /\ r' = res.r
              /\ log' = <<res.req>>
    /\ fn' = "socket_SIOCGIFNAME"
    /\ pc' = "done"
    /\ prev' = Summary
    /\ bound0' = bound
    /\ raced' = FALSE
    /\ envChanged' = FALSE
    /\ UNCHANGED <<ifaces, priv, bound>>

\* What `setsockopt(socket, SOL_SOCKET, SO_BINDTOIF, &ifindex,
\* sizeof(ifindex))` of the disabled block can answer: success, an unknown
\* option, or another error.
setsockopt_SO_BINDTOIF(cap) ==
    {ENOPROTOOPT} \cup (IF cap THEN {0} ELSE {EPERM})

\* socket_bind_if() is entered: the local buffer is initialised and the
\* precondition is asserted.  Where the SO_BINDTOIF block is compiled, it is
\* tried first.  Then the name-based strategy is selected.
socket_bind_if_enter ==
    /\ CanCall
    /\ \E idx \in CallerIndices, buf \in ifname_init :
          /\ ifindex' = idx
          /\ ifname' = buf
          /\ buf0' = buf
          /\ IF ~assert_ifindex(idx)
             THEN pc' = "aborted" /\ log' = <<>> /\ r' = 0 /\ bound' = bound
             ELSE IF SO_BINDTOIF_compiled
             THEN \E e \in setsockopt_SO_BINDTOIF(priv) :
                     /\ log' = <<Request("SO_BINDTOIF", idx, <<>>, 4, e)>>
                     /\ IF e = 0
                        THEN pc' = "done" /\ r' = 0 /\ bound' = idx
                        ELSE IF e # ENOPROTOOPT
                        THEN pc' = "done" /\ r' = -e /\ bound' = bound
                        ELSE /\ pc' = IF needs_resolve(idx) THEN "resolve"
                                      ELSE "bind"
                             /\ r' = 0
                             /\ bound' = bound
             ELSE /\ pc' = IF needs_resolve(idx) THEN "resolve" ELSE "bind"
                  /\ log' = <<>>
                  /\ r' = 0
                  /\ bound' = bound
    /\ fn' = "socket_bind_if"
    /\ prev' = Summary
    /\ bound0' = bound
    /\ raced' = FALSE
    /\ envChanged' = FALSE
    /\ UNCHANGED <<ifaces, priv>>

\* `r = socket_SIOCGIFNAME(socket, ifindex, &ifname); if (r) return r;`
socket_bind_if_resolve ==
    /\ pc = "resolve"
    /\ LET res == socket_SIOCGIFNAME(ifaces, ifindex, ifname)
       IN  /\ ifname' = res.ifname
           /\ log' = Append(log, res.req)
           /\ IF resolve_failed(res.r)
              THEN r' = res.r /\ pc' = "done"
              ELSE r' = r /\ pc' = "bind"
    /\ UNCHANGED <<ifaces, priv, bound, fn, ifindex, buf0, bound0, raced,
                   envChanged, prev>>

\* `r = setsockopt(socket, SOL_SOCKET, SO_BINDTODEVICE, ifname,
\*  strlen(ifname)); if (r < 0) return -errno; return 0;`
socket_bind_if_bind ==
    /\ pc = "bind"
    /\ \E n \in optlen_of(ifname) :
          LET k == setsockopt_SO_BINDTODEVICE(ifaces, priv, bound, ifname, n)
          IN  /\ bound' = k.bound
              /\ r' = bind_result(k)
              /\ log' = Append(log, Request("SO_BINDTODEVICE", 0, ifname, n,
                                            k.errno))
    /\ pc' = "done"
    /\ UNCHANGED <<ifaces, priv, fn, ifindex, ifname, buf0, bound0, raced,
                   envChanged, prev>>

\* The namespace changes out-of-band.
InWindow == pc = "bind" /\ needs_resolve(ifindex)

EnvStep(ifs) ==
    /\ ifaces' = ifs
    /\ raced' = (raced \/ InWindow)
    /\ envChanged' = TRUE
    /\ UNCHANGED <<priv, bound, pc, fn, ifindex, ifname, r, buf0, bound0,
                   log, prev>>

InUse(n) == \E i \in Indices : ifaces[i] = n

env_rename ==
    /\ pc # "aborted"
    /\ \E i \in Indices, n \in Names :
          /\ ifaces[i] # NoIf
          /\ ~InUse(n)
          /\ EnvStep([ifaces EXCEPT ![i] = n])

env_remove ==
    /\ pc # "aborted"
    /\ \E i \in Indices :
          /\ ifaces[i] # NoIf
          /\ EnvStep([ifaces EXCEPT ![i] = NoIf])

env_add ==
    /\ pc # "aborted"
    /\ \E i \in Indices, n \in Names :
          /\ ifaces[i] = NoIf
          /\ ~InUse(n)
          /\ EnvStep([ifaces EXCEPT ![i] = n])

Next ==
    \/ call_socket_SIOCGIFNAME
    \/ socket_bind_if_enter
    \/ socket_bind_if_resolve
    \/ socket_bind_if_bind
    \/ env_rename
    \/ env_remove
    \/ env_add

Spec == Init /\ [][Next]_vars

\* ------------------------------------------------------------ properties

BindDone    == pc = "done" /\ fn = "socket_bind_if"
ResolveDone == pc = "done" /\ fn = "socket_SIOCGIFNAME"

Entries(kind) == {k \in 1..Len(log) : log[k].req = kind}
NameBased     == Entries("SIOCGIFNAME") \cup Entries("SO_BINDTODEVICE")

\* buf holds a non-empty zero-terminated name of at most IFNAMSIZ-1 bytes.
WellFormedName(buf) ==
    /\ Len(buf) = IFNAMSIZ
    /\ Terminated(buf)
    /\ FirstNul(buf) > 1
    /\ FirstNul(buf) - 1 <= IFNAMSIZ - 1

\* C1: every call of socket_bind_if that passes the assertion issues a
\* SO_BINDTOIF request first, and every name-based request (SIOCGIFNAME,
\* SO_BINDTODEVICE) of a call comes after a SO_BINDTOIF request of the same
\* call that failed with ENOPROTOOPT.
C1_IndexBasedFirst ==
    fn = "socket_bind_if" =>
        /\ pc \in {"resolve", "bind", "done"} =>
              log # <<>> /\ log[1].req = "SO_BINDTOIF"
        /\ \A k \in NameBased :
              \E j \in 1..(k - 1) :
                 log[j].req = "SO_BINDTOIF" /\ log[j].errno = ENOPROTOOPT

\* C2: whenever socket_SIOCGIFNAME has returned 0, to a direct caller or to
\* socket_bind_if, the buffer holds a non-empty, zero-terminated name of at
\* most IFNAMSIZ-1 bytes, and that name is the one the kernel reported.
C2_ResolvedNameWellFormed ==
    /\ ResolveDone /\ r = 0 =>
          /\ WellFormedName(ifname)
          /\ CStr(ifname, IFNAMSIZ) = CStr(log[1].data, IFNAMSIZ)
    /\ fn = "socket_bind_if" /\ pc = "bind" /\ needs_resolve(ifindex) =>
          WellFormedName(ifname)

C2_Witness ==
    /\ ResolveDone
    /\ r = 0
    /\ buf0 = Garbage
    /\ CStr(ifname, IFNAMSIZ) = Name(NumNames)

\* C3: a resolution of an index that has no interface in the namespace
\* returns the negated kernel error code and leaves the buffer as it was,
\* both for a direct caller and inside socket_bind_if.
C3_NonexistentIndexFails ==
    [][ /\ call_socket_SIOCGIFNAME /\ ~Exists(ifaces, ifindex') =>
              r' = -ENODEV /\ ifname' = buf0'
        /\ socket_bind_if_resolve /\ ~Exists(ifaces, ifindex) =>
              r' = -ENODEV /\ ifname' = ifname /\ pc' = "done" ]_vars

C3_Witness ==
    /\ ResolveDone
    /\ ifindex > 0
    /\ r = -ENODEV
    /\ buf0 = Garbage
    /\ ifname = Garbage

C6_NegativeIndexAborts ==
    /\ fn = "socket_bind_if" /\ ifindex < 0 =>
          pc = "aborted" /\ log = <<>> /\ bound = bound0
    /\ pc = "aborted" => fn = "socket_bind_if" /\ ifindex < 0

C6_Witness ==
    /\ pc = "aborted"
    /\ ifindex < 0
    /\ bound0 > 0
    /\ bound = bound0

\* C7: socket_bind_if returns 0 exactly when every kernel request of the
\* call succeeded; otherwise it returns the negated errno of the failing
\* request, which is the first failing one and the last request of the call.
\* No request is issued twice, and a call in progress has seen no failure.
C7_ErrorsSurfaced ==
    fn = "socket_bind_if" =>
        /\ \A j, k \in 1..Len(log) : j # k => log[j].req # log[k].req
        /\ pc \in {"resolve", "bind"} =>
              \A k \in 1..Len(log) : log[k].errno = 0
        /\ pc = "done" =>
              /\ log # <<>>
              /\ \A k \in 1..(Len(log) - 1) : log[k].errno = 0
              /\ r = -log[Len(log)].errno

C7_Witness ==
    /\ BindDone
    /\ Len(log) = 2
    /\ log[1].errno = 0
    /\ log[2].errno = EPERM
    /\ r = -EPERM

\* C8: when the resolution inside socket_bind_if fails, the call returns the
\* resolver's error code, no SO_BINDTODEVICE request is issued and the socket
\* keeps the binding it had when the call was entered.
C8_ResolveErrorPropagated ==
    fn = "socket_bind_if" =>
        \A k \in Entries("SIOCGIFNAME") :
            log[k].errno # 0 =>
                /\ pc = "done"
                /\ r = -log[k].errno
                /\ Entries("SO_BINDTODEVICE") = {}
                /\ bound = bound0

C8_Witness ==
    /\ BindDone
    /\ Len(log) = 1
    /\ log[1].req = "SIOCGIFNAME"
    /\ log[1].errno = ENODEV
    /\ r = -ENODEV
    /\ bound0 > 0
    /\ bound = bound0

\* C9: a socket_bind_if(s, i) with i > 0 that returns 0 and had no namespace
\* change between its resolution and its bind leaves s bound to index i.
\* (The witness is the race: one call with a change in that window returned 0
\* with s bound to another index, the next such call failed.)
C9_NoRaceBindsRequested ==
    BindDone /\ ifindex > 0 /\ r = 0 /\ ~raced => bound = ifindex

C9_Witness ==
    /\ prev.fn = "socket_bind_if"
    /\ prev.ifindex > 0
    /\ prev.raced
    /\ prev.r = 0
    /\ prev.bound # 0
    /\ prev.bound # prev.ifindex
    /\ BindDone
    /\ ifindex > 0
    /\ raced
    /\ r = -ENODEV
    /\ Len(log) = 2

\* C10: socket_bind_if issues SIOCGIFNAME only for ifindex > 0.  For
\* ifindex = 0 the SO_BINDTODEVICE request carries the empty name and length
\* 0; for ifindex > 0 it follows a successful resolution and carries the
\* resolved name with that name's byte length, which is below IFNAMSIZ.
C10_ExactNameLength ==
    fn = "socket_bind_if" =>
        /\ Entries("SIOCGIFNAME") # {} => ifindex > 0
        /\ \A k \in Entries("SO_BINDTODEVICE") :
              IF ifindex = 0
              THEN log[k].data = Zeros /\ log[k].optlen = 0
              ELSE /\ k = 2
                   /\ log[1].req = "SIOCGIFNAME"
                   /\ log[1].errno = 0
                   /\ log[k].optlen = Len(CStr(log[1].data, IFNAMSIZ))
                   /\ log[k].optlen < IFNAMSIZ
                   /\ CStr(log[k].data, log[k].optlen)
                         = CStr(log[1].data, IFNAMSIZ)

C10_Witness ==
    /\ BindDone
    /\ ifindex > 0
    /\ r = 0
    /\ Len(log) = 2
    /\ log[2].optlen = IFNAMSIZ - 1
    /\ prev.fn = "socket_bind_if"
    /\ prev.ifindex = 0
    /\ prev.r = 0

====
